---- MODULE Spec2Model ----
(***************************************************************************)
(* The asynchronous result-binding hooks of haystack-react: useGrid and   *)
(* the one-shot hooks built on it (client.ts), the ref-based useWatch      *)
(* (watch.ts), and the mode dispatcher useResolveHaystackValue with the    *)
(* point and tag variants and the two useWatch bindings they contain.      *)
(*                                                                         *)
(* One mounted component is modelled.  `mode' says which hook it calls.    *)
(* Every run of an effect callback creates one Attempt: the closure that   *)
(* owns `cancel', the `updates' local of the render that created it, and   *)
(* the promise returned by doGetGrid() / open().  Awaited I/O settles in    *)
(* separate steps, in any order.                                           *)
(***************************************************************************)
EXTENDS Integers, Sequences, FiniteSets, TLC

\* Bounds of the model: the effect re-runs of a component after its mount,
\* and the change notifications the watches of one binding deliver.
MaxReruns == 1
MaxPushes == 1

\* Bound of the model: the calls of refresh() on one component.
MaxRefreshes == 2

\* The records of the server, and the tables a read can resolve to: the
\* empty table and the table of all records.
RecIds == {"p1", "p2"}
RowSets == {{}, RecIds}

\* The hooks a component can be built on.
Modes == {"useGrid", "useWatch", "useResolveHaystackValue"}

\* The controllers: useGrid called with the caller's own dependency list,
\* the one-shot hooks built on useGrid, and useWatch.
Hooks == {"useGrid", "useReadByIds", "useReadById", "useReadByFilter", "useEval",
          "useWatch"}

ModeOf(h) == IF h = "useWatch" THEN "useWatch" ELSE "useGrid"

\* The controller of a component that calls useGrid / useWatch directly.
DirectHook(m) == IF m = "useGrid" THEN "useGrid" ELSE "useWatch"

\* The Client instances a ClientContext provider can supply.
Clients == {"client", "otherClient"}

\* The context values and the `refreshes' state of a fresh component:
\* OnlyOpsContext defaults to true, useState(0).
InitAmbient == [client |-> "client", ops |-> TRUE, refreshes |-> 0]

\* The part of a hook's dependency array that comes from the contexts and
\* from `refreshes', given the values s the render read.  useGrid takes
\* the caller's list (modelled by props); useEval lists no ops flag.
DepEnv(h, s) ==
    CASE h = "useGrid" -> [client |-> "", ops |-> FALSE, refreshes |-> 0]
      [] h = "useEval" -> [client |-> s.client, ops |-> FALSE, refreshes |-> s.refreshes]
      [] OTHER -> s

\* The effect instances (bindings): one for useGrid, one for useWatch, and
\* the two useWatch calls made below useResolveHaystackValue.
AllBindings == {"grid", "watch", "point", "tag"}

Bindings(m) ==
    CASE m = "useGrid" -> {"grid"}
      [] m = "useWatch" -> {"watch"}
      [] OTHER -> {"point", "tag"}

\* `ids' as a parameter: absent (undefined), or a list of ids (possibly empty).
NoIds == [def |-> FALSE, rows |-> {}]
IdsOf(s) == [def |-> TRUE, rows |-> s]

\* `filter': "" stands for an absent or empty filter (both are falsy).
Filters == {"", "point and curVal"}

\* `pollRate' as a parameter: absent (undefined), or a number of seconds.
NoPollRate == [def |-> FALSE, n |-> 0]
PollRateOf(n) == [def |-> TRUE, n |-> n]
PollRates == {NoPollRate} \cup {PollRateOf(n) : n \in {-1, 0, 3}}

\* import { DEFAULT_POLL_RATE_SECS } from 'haystack-nclient'
DEFAULT_POLL_RATE_SECS == 5

\* pollRate = DEFAULT_POLL_RATE_SECS in the parameter list: the value the
\* body of useWatch reads.
ParamPollRate(r) == IF r.def THEN r.n ELSE DEFAULT_POLL_RATE_SECS

\* pollRate > 0 ? pollRate : DEFAULT_POLL_RATE_SECS
WatchPollRateAsGiven(n) == n
WatchPollRate(n) == IF n > 0 THEN n ELSE DEFAULT_POLL_RATE_SECS

\* The parameters as the dependency array of the effect compares them: the
\* poll rate after its default was applied.
EffectDeps(p) == [p EXCEPT !.pollRate = PollRateOf(ParamPollRate(@))]

\* The parameters of useWatch / the query of a useGrid caller: neither ids
\* nor filter, a filter, an empty id list, or a list of ids.
Props ==
    {[ids |-> NoIds, filter |-> f, pollRate |-> NoPollRate] : f \in Filters}
        \cup {[ids |-> IdsOf(s), filter |-> "", pollRate |-> NoPollRate] :
                    s \in {{}, {"p1"}}}

\* The parameters of a useWatch caller that also passes a poll rate.
PollProps ==
    {[ids |-> IdsOf({"p1"}), filter |-> "", pollRate |-> r] : r \in PollRates}
        \cup {[ids |-> NoIds, filter |-> "point and curVal", pollRate |-> r] :
                    r \in PollRates}

\* new HGrid(), a grid read for attempt a, and the live grid of a's watch.
\* `by' records the Attempt that produced the grid (0: the initial cell).
InitGrid == [by |-> 0, kind |-> "new", rows |-> {}]
NewGrid(a) == [by |-> a, kind |-> "new", rows |-> {}]
ReadGrid(a, rows) == [by |-> a, kind |-> "read", rows |-> rows]
WatchGrid(a, rows) == [by |-> a, kind |-> "watch", rows |-> rows]

\* error: 0 is undefined, a > 0 is the Error thrown to attempt a.
NoError == 0

\* The inputs of useResolveHaystackValue: nothing, a bare value, or a dict
\* with an optional meta dict (resolveType, readTag, writeTag, writeLevel,
\* writeWho, writeDuration) and an optional id.  An optional number or
\* string is a set: {} is undefined, {v} is the value v.
NotDict(k) ==
    [kind |-> k, hasMeta |-> FALSE, resolveType |-> "", readTag |-> "",
     writeTag |-> "", id |-> "",
     writeLevel |-> {}, writeWho |-> {}, writeDuration |-> {}]
DictWith(hasMeta, resolveType, readTag, writeTag, id) ==
    [kind |-> "dict", hasMeta |-> hasMeta, resolveType |-> resolveType,
     readTag |-> readTag, writeTag |-> writeTag, id |-> id,
     writeLevel |-> {}, writeWho |-> {}, writeDuration |-> {}]
\* A point whose meta carries writeLevel, writeWho and writeDuration.
PointWith(id, level, who, duration) ==
    [DictWith(TRUE, "point", "", "", id) EXCEPT
        !.writeLevel = level, !.writeWho = who, !.writeDuration = duration]
Dict(hasMeta, resolveType, readTag, id) ==
    DictWith(hasMeta, resolveType, readTag, "", id)

Resolvables ==
    {NotDict("nothing"), NotDict("value"),
     Dict(FALSE, "", "", "p1"), Dict(TRUE, "", "", "p1"),
     Dict(TRUE, "point", "", "p1"), Dict(TRUE, "point", "", ""),
     Dict(TRUE, "tag", "precision", "p1"), Dict(TRUE, "tag", "", "p1")}

\* The inputs the value of the dispatcher is followed for: a bare value,
\* a point, tags with and without readTag and writeTag, another resolveType.
ValueInputs ==
    {NotDict("value"),
     Dict(TRUE, "point", "", "p1"),
     Dict(TRUE, "tag", "precision", "p1"),
     DictWith(TRUE, "tag", "precision", "precisionSp", "p1"),
     Dict(TRUE, "tag", "", "p1"),
     Dict(TRUE, "other", "", "p1")}

\* Bound of the model: the calls of a writer on one component.
MaxWrites == 1

\* The fields of the record on the server that the variants read and write.
Fields == {"curVal", "precision", "precisionSp"}

\* Values: none, the input record's own value of a field, the value the
\* server holds at first, and the value a caller writes.
Vals == {"undefined", "own", "server", "written"}

\* The variants below the dispatcher (and the bindings of their useWatch).
Variants == {"point", "tag"}

VARIABLES
    mode,       \* the hook the component calls
    hook,        \* the controller in front of it
    amb,         \* the context values (client, ops) and the `refreshes' state
    seen,        \* the same, as read by the last render
    depEnv,      \* per binding: their part of the dependency array of the last effect run
    calls,       \* the calls of refresh() so far
    mounted,     \* the component is mounted
    props,       \* useGrid / useWatch: the parameters of the last render
    resolvable,  \* useResolveHaystackValue: the input of the last render
    pend,        \* per binding: "run" (effect scheduled), "cleanup", "none"
    deps,        \* per binding: the useWatch parameters of the last effect run
    rUpdates,    \* per binding: `updates' as read by the render whose effect is scheduled
    rLoads,      \* per binding: `loads' as read by that render (state-hook useWatch)
    cell,        \* per binding: data.current (grid, isLoading, loads, error)
    updates,     \* per binding: the `updates' state of React
    cur,         \* per binding: the Attempt of the last effect run (0: none)
    pushes,      \* per binding: the change notifications delivered so far
    att,         \* the Attempts, in start order
    cv,          \* per variant: the currentValue state
    out,         \* what the last evaluation of the dispatcher returned
    eff,         \* per variant: the effect on [readValue]
    wr,          \* the write a caller started last
    srv,         \* per record and field: the value on the server
    live         \* per record and field: the value in the grid of its watch

\* The state of the hooks below useResolveHaystackValue, and the rest.
valueVars == <<cv, out, eff, wr, srv, live>>

coreVars ==
    <<mode, hook, amb, seen, depEnv, calls, mounted, props, resolvable, pend,
      deps, rUpdates, rLoads, cell, updates, cur, pushes, att>>

vars == <<coreVars, rLoads, valueVars>>

Attempts == DOMAIN att

\* The longer runs: one more effect re-run.
MoreReruns == MaxReruns + 1

\* The longest runs: two more effect re-runs.
MostReruns == MoreReruns + 1

\* The most Attempts a component of mode m starts with n effect re-runs:
\* one per binding at the mount, one per re-run.
MaxAttempts(m, n) == Cardinality(Bindings(m)) + n
AttemptIds == 1..(Cardinality(AllBindings) + MoreReruns)

----------------------------------------------------------------------------
(* Resolvable.ts *)

isResolvableDict(v) == v.kind = "dict" /\ v.hasMeta /\ v.resolveType # ""

isResolvable(v, t) == isResolvableDict(v) /\ v.resolveType = t

isResolvablePoint(v) == isResolvable(v, "point")

isResolvableTag(v) == isResolvable(v, "tag") /\ v.readTag # ""

\* originalPoint?.id of a record handed to a variant (undefined -> NoIds).
RecordIds(given, v) ==
    IF given /\ v.kind = "dict" /\ v.id # "" THEN IdsOf({v.id}) ELSE NoIds

\* The parameters the binding b passes to useWatch.
WatchProps(m, b, p, r) ==
    CASE m = "useResolveHaystackValue" /\ b = "point" ->
            [ids |-> RecordIds(isResolvablePoint(r), r), filter |-> "",
             pollRate |-> PollRateOf(5)]
      [] m = "useResolveHaystackValue" /\ b = "tag" ->
            [ids |-> RecordIds(isResolvableTag(r), r), filter |-> "",
             pollRate |-> PollRateOf(5)]
      [] OTHER -> p

----------------------------------------------------------------------------
(* The writes to the Result Cell, shared by doGetGrid() and open(). *)

InitCell == [grid |-> InitGrid, isLoading |-> TRUE, loads |-> 0, error |-> NoError]

\* gridData.isLoading = true
StartLoadingSkipped(c) == c
StartLoading(c) == [c EXCEPT !.isLoading = TRUE]

\* if (!cancel) { gridData.grid = grid }
CommitGridNoGuard(c, cancel, g) == [c EXCEPT !.grid = g]
CommitGrid(c, cancel, g) == IF ~cancel THEN [c EXCEPT !.grid = g] ELSE c

\* catch (err) { if (!cancel) { gridData.error = err } }
CaptureErrorDropped(c, cancel, e) == c
CaptureErrorNoGuard(c, cancel, e) == [c EXCEPT !.error = e]
CaptureError(c, cancel, e) == IF ~cancel THEN [c EXCEPT !.error = e] ELSE c

\* finally { if (!cancel) { ++loads; isLoading = false } }
FinishSkipped(c, cancel) == c
FinishNoGuard(c, cancel) == [c EXCEPT !.isLoading = FALSE, !.loads = @ + 1]
Finish(c, cancel) ==
    IF ~cancel THEN [c EXCEPT !.isLoading = FALSE, !.loads = @ + 1] ELSE c

\* useWatch: watchData.grid = ids; watchData.isLoading = false
InterimCountsLoad(c, g) == [c EXCEPT !.grid = g, !.isLoading = FALSE, !.loads = @ + 1]
InterimCommit(c, g) == [c EXCEPT !.grid = g, !.isLoading = FALSE]

\* The cleanup's writes: isLoading = false; error = undefined
TeardownCountsLoad(c) ==
    [c EXCEPT !.isLoading = FALSE, !.error = NoError, !.loads = @ + 1]
TeardownKeepsError(c) == [c EXCEPT !.isLoading = FALSE]
Teardown(c) == [c EXCEPT !.isLoading = FALSE, !.error = NoError]

----------------------------------------------------------------------------
(* Attempts *)

\* The closure state of one effect run.
\*   pc: "read" (awaiting getGrid() / the filter read), "make" (awaiting
\*       make()), "closing" (awaiting watch.close() inside open()), "done"
\*       (settled while live), "bailed" (settled after cancel was set)
\*   upd: the `updates' local that forceUpdate increments
\*   ret: what the promise of open() resolves to ("watch" or "undefined")
\*   closer: the cleanup's close(): "none", "waiting" (awaits the promise), "done"
\*   failed: the awaited I/O rejected and the catch block ran
\*   pollRate: the `pollRate' argument of the render that created the effect
\*   interval: watch.pollRate as open() set it (0: not set by open())
\*   lds: the `loads' local that ++loads increments (state-hook useWatch)
NewAttempt(b, wp, u) ==
    [owner |-> b, pc |-> "read", cancel |-> FALSE, upd |-> u,
     ids |-> wp.ids, filter |-> wp.filter, interim |-> FALSE,
     made |-> FALSE, created |-> FALSE, ret |-> "undefined",
     closer |-> "none", closes |-> 0, registered |-> FALSE, failed |-> FALSE,
     pollRate |-> wp.pollRate, interval |-> 0, lds |-> 0]

\* const forceUpdate = (): void => setUpdates(++updates)
ForceUpdate(at) == [at EXCEPT !.upd = @ + 1]

\* The value of the `updates' state after the attempt's step: the last
\* setUpdates() of the step, if there was one.
StateAfter(u, before, after) == IF after.upd # before.upd THEN after.upd ELSE u

\* if (!wasLoading) { forceUpdate() }
ForceAlways(wasLoading, at) == ForceUpdate(at)
ForceIfIdle(wasLoading, at) == IF ~wasLoading THEN ForceUpdate(at) ELSE at

\* The promise of an async function settles: pc after the finally block.
Settled(at) == IF at.cancel THEN "bailed" ELSE "done"

\* useGrid cleanup: cancel = true
CancelGridSkipped(at) == at
CancelGrid(at) == [at EXCEPT !.cancel = TRUE]

\* useWatch cleanup: cancel = true; close() awaits the promise of open()
CancelNoClose(at) == [at EXCEPT !.cancel = TRUE]
CancelWatch(at) == [at EXCEPT !.cancel = TRUE, !.closer = "waiting"]

\* make(display || filter || ..., ids) is called
RequestHandle(at) == [at EXCEPT !.pc = "make", !.made = TRUE]

\* The first, synchronous part of open(): up to the first await.
\* Gives the cell and the attempt record after it.
OpenStart(a, c0, at0) ==
    LET c1 == StartLoading(c0)
        at1 == ForceIfIdle(c0.isLoading, at0)
    IN  IF ~at1.ids.def
        THEN IF at1.filter # ""
             THEN [cell |-> c1, at |-> at1]
             ELSE [cell |-> InterimCommit(c1, NewGrid(a)),
                   at |-> RequestHandle(ForceUpdate(
                            [at1 EXCEPT !.ids = IdsOf({}), !.interim = TRUE]))]
        ELSE [cell |-> c1, at |-> RequestHandle(at1)]

\* The first, synchronous part of doGetGrid(): up to await getGrid().
GetGridStart(c0, at0) ==
    [cell |-> StartLoading(c0), at |-> ForceIfIdle(c0.isLoading, at0)]

\* A continuation sits in the job queue: the close() of a cleanup whose
\* awaited promise of open() has settled.  Jobs run before the next render,
\* effect or I/O callback.
JobQueued ==
    \E a \in Attempts : att[a].closer = "waiting" /\ att[a].pc \in {"done", "bailed"}

----------------------------------------------------------------------------
(* The component *)

InitProps(hooks, modes, inputs, queries) ==
    /\ mode \in modes
    /\ hook \in hooks /\ ModeOf(hook) = ModeOf(DirectHook(mode))
    /\ amb = InitAmbient
    /\ seen = InitAmbient
    /\ depEnv = [b \in AllBindings |-> DepEnv(hook, InitAmbient)]
    /\ calls = 0
    /\ mounted = TRUE
    /\ props \in (IF mode = "useResolveHaystackValue"
                  THEN {[ids |-> NoIds, filter |-> "", pollRate |-> NoPollRate]}
                  ELSE queries)
    /\ resolvable \in (IF mode = "useResolveHaystackValue"
                       THEN inputs ELSE {NotDict("nothing")})
    /\ pend = [b \in AllBindings |-> IF b \in Bindings(mode) THEN "run" ELSE "none"]
    /\ deps = [b \in AllBindings |->
                    [ids |-> NoIds, filter |-> "", pollRate |-> NoPollRate]]
    /\ rUpdates = [b \in AllBindings |-> 0]
    /\ rLoads = [b \in AllBindings |-> 0]
    /\ cell = [b \in AllBindings |-> InitCell]
    /\ updates = [b \in AllBindings |-> 0]
    /\ cur = [b \in AllBindings |-> 0]
    /\ pushes = [b \in AllBindings |-> 0]
    /\ att = <<>>

InitCore(hooks, modes, inputs) == InitProps(hooks, modes, inputs, Props)

\* Nothing is resolved to a value: the hooks below the dispatcher are not
\* followed.
InitServer == [e \in RecIds |-> [f \in Fields |-> "server"]]

\* HaystackPointWriteOptions, with any further key the object carries:
\* `keys' are the own properties of the object, a key with the value {} is
\* present and undefined.  No object at all (undefined) has no keys.
OptionKeys == {"level", "who", "duration", "id"}
NoOptions ==
    [keys |-> {}, level |-> {}, who |-> {}, duration |-> {}, id |-> {}]
Options(ks, level, who, duration, id) ==
    [keys |-> ks,
     level |-> IF "level" \in ks THEN level ELSE {},
     who |-> IF "who" \in ks THEN who ELSE {},
     duration |-> IF "duration" \in ks THEN duration ELSE {},
     id |-> IF "id" \in ks THEN id ELSE {}]

\* The options a caller passes to the writer: every set of keys, each of
\* level, who and duration undefined or set, an id of another record.
CallOptions ==
    {Options(ks, l, w, d, {"p2"}) :
        ks \in SUBSET OptionKeys, l \in {{}, {8}}, w \in {{}, {"op"}},
        d \in {{}, {60}}}

NoWriter == [kind |-> "none", id |-> "", tag |-> "", general |-> NoOptions]
NoRequest ==
    [id |-> {}, level |-> {}, who |-> {}, duration |-> {}, val |-> {}]
NoOutput ==
    [from |-> "none", value |-> "undefined", writer |-> NoWriter,
     entity |-> "undefined", loading |-> FALSE]
NoWrite ==
    [state |-> "idle", of |-> "none", writer |-> NoWriter, n |-> 0,
     options |-> NoOptions, request |-> NoRequest]
NoEffect == [pend |-> "none", read |-> "undefined", dep |-> "unset"]

ValuesUnused ==
    /\ cv = [b \in Variants |-> "undefined"]
    /\ out = NoOutput
    /\ eff = [b \in Variants |-> NoEffect]
    /\ wr = NoWrite
    /\ srv = InitServer
    /\ live = InitServer

InitWith(hooks, modes) == InitCore(hooks, modes, Resolvables) /\ ValuesUnused

\* A component that calls the hook of one of `modes' directly.
InitOf(modes) == InitWith({DirectHook(m) : m \in modes}, modes)

\* useReadByIds calls useReadByFilter instead of useGrid when ops is set:
\* a render that reads another ops flag than the one before calls another
\* list of hooks, and React throws.
HookOrderBroken == hook = "useReadByIds" /\ amb.ops # seen.ops

\* The component function runs again with new parameters.  The effect of a
\* binding is scheduled when its dependency array changed; the closures it
\* will run with are those of this render.  n bounds the effect re-runs.
RenderCore(p, r, n) ==
    LET changed(b) ==
            /\ b \in Bindings(mode)
            /\ \/ EffectDeps(WatchProps(mode, b, p, r)) # EffectDeps(deps[b])
               \/ DepEnv(hook, amb) # depEnv[b]
    IN  /\ mounted /\ ~JobQueued /\ ~HookOrderBroken
        /\ \A b \in AllBindings : pend[b] = "none"
        /\ IF mode = "useResolveHaystackValue"
           THEN p = props /\ (r # resolvable \/ amb # seen)
           ELSE r = resolvable /\ (p # props \/ amb # seen)
        /\ seen' = amb
        /\ Len(att) + Cardinality({b \in AllBindings : changed(b)}) <= MaxAttempts(mode, n)
        /\ props' = p
        /\ resolvable' = r
        /\ pend' = [b \in AllBindings |-> IF changed(b) THEN "run" ELSE "none"]
        /\ rUpdates' = [b \in AllBindings |->
                            IF changed(b) THEN updates[b] ELSE 0]
        /\ UNCHANGED <<mode, hook, amb, depEnv, calls, mounted, deps, cell,
                       updates, cur, pushes, att>>

RenderWithin(p, r, n) ==
    RenderCore(p, r, n) /\ UNCHANGED rLoads /\ UNCHANGED valueVars

Render(p, r) == RenderWithin(p, r, MaxReruns)

RenderAgain(p, r) == RenderWithin(p, r, MoreReruns)

RenderOften(p, r) == RenderWithin(p, r, MostReruns)

\* The component is removed: the cleanup of every effect that ran is scheduled.
Unmount ==
    /\ mounted /\ ~JobQueued
    /\ \A b \in AllBindings : pend[b] = "none"
    /\ mounted' = FALSE
    /\ pend' = [b \in AllBindings |-> IF cur[b] # 0 THEN "cleanup" ELSE "none"]
    /\ UNCHANGED <<mode, hook, amb, seen, depEnv, calls, props, resolvable,
                   deps, rUpdates, cell, updates, cur, pushes, att,
                   rLoads, valueVars>>

\* The render throws (the hooks called differ from the render before) and
\* React removes the component.
RenderThrows == HookOrderBroken /\ Unmount

\* The caller calls the refresh() the last render returned:
\* setRefreshes(refreshes + 1) over the `refreshes' that render read.
Refresh ==
    /\ mounted /\ ~JobQueued
    /\ hook # "useGrid" /\ mode # "useResolveHaystackValue"
    /\ calls < MaxRefreshes
    /\ calls' = calls + 1
    /\ amb' = [amb EXCEPT !.refreshes = seen.refreshes + 1]
    /\ UNCHANGED <<mode, hook, seen, depEnv, mounted, props, resolvable, pend,
                   deps, rUpdates, cell, updates, cur, pushes, att,
                   rLoads, valueVars>>

\* The context values change.
AmbientChange(a) ==
    /\ mounted /\ ~JobQueued
    /\ amb' = a
    /\ UNCHANGED <<mode, hook, seen, depEnv, calls, mounted, props,
                   resolvable, pend, deps, rUpdates, cell, updates, cur,
                   pushes, att,
                   rLoads, valueVars>>

\* A ClientContext provider above the component supplies another Client.
SetClient(c) ==
    /\ amb.client = seen.client /\ c # amb.client
    /\ AmbientChange([amb EXCEPT !.client = c])

\* An OnlyOpsContext provider above the component flips the flag.
SetOps ==
    /\ amb.ops = seen.ops
    /\ AmbientChange([amb EXCEPT !.ops = ~amb.ops])

\* useGrid: the effect runs.  The cleanup of the previous run comes first,
\* then doGetGrid() runs up to await getGrid().
GridEffect(b) ==
    /\ b = "grid" /\ pend[b] = "run" /\ ~JobQueued
    /\ LET old == cur[b]
           a == Len(att) + 1
           c0 == IF old = 0 THEN cell[b] ELSE Teardown(cell[b])
           at0 == NewAttempt(b, props, rUpdates[b])
           s == GetGridStart(c0, at0)
           prev == IF old = 0 THEN att ELSE [att EXCEPT ![old] = CancelGrid(@)]
       IN  /\ att' = Append(prev, s.at)
           /\ cell' = [cell EXCEPT ![b] = s.cell]
           /\ updates' = [updates EXCEPT ![b] = StateAfter(@, at0, s.at)]
           /\ cur' = [cur EXCEPT ![b] = a]
    /\ deps' = [deps EXCEPT ![b] = props]
    /\ depEnv' = [depEnv EXCEPT ![b] = DepEnv(hook, seen)]
    /\ pend' = [pend EXCEPT ![b] = "none"]
    /\ rUpdates' = [rUpdates EXCEPT ![b] = 0]
    /\ UNCHANGED <<mode, hook, amb, seen, calls, mounted, props, resolvable,
                   pushes,
                   rLoads, valueVars>>

\* useGrid: the cleanup alone (unmount).
GridCleanup(b) ==
    /\ b = "grid" /\ pend[b] = "cleanup" /\ ~JobQueued
    /\ att' = [att EXCEPT ![cur[b]] = CancelGrid(@)]
    /\ cell' = [cell EXCEPT ![b] = Teardown(@)]
    /\ pend' = [pend EXCEPT ![b] = "none"]
    /\ UNCHANGED <<mode, hook, amb, seen, depEnv, calls, mounted, props,
                   resolvable, deps, rUpdates, updates, cur, pushes,
                   rLoads, valueVars>>

\* useWatch: the effect runs.  The cleanup of the previous run comes first,
\* then open() runs up to its first await.
WatchEffect(b) ==
    /\ b # "grid" /\ pend[b] = "run" /\ ~JobQueued
    /\ LET old == cur[b]
           a == Len(att) + 1
           wp == WatchProps(mode, b, props, resolvable)
           c0 == IF old = 0 THEN cell[b] ELSE Teardown(cell[b])
           at0 == NewAttempt(b, wp, rUpdates[b])
           s == OpenStart(a, c0, at0)
           prev == IF old = 0 THEN att ELSE [att EXCEPT ![old] = CancelWatch(@)]
       IN  /\ att' = Append(prev, s.at)
           /\ cell' = [cell EXCEPT ![b] = s.cell]
           /\ updates' = [updates EXCEPT ![b] = StateAfter(@, at0, s.at)]
           /\ cur' = [cur EXCEPT ![b] = a]
           /\ deps' = [deps EXCEPT ![b] = wp]
    /\ depEnv' = [depEnv EXCEPT ![b] = DepEnv(hook, seen)]
    /\ pend' = [pend EXCEPT ![b] = "none"]
    /\ rUpdates' = [rUpdates EXCEPT ![b] = 0]
    /\ UNCHANGED <<mode, hook, amb, seen, calls, mounted, props, resolvable,
                   pushes,
                   rLoads, valueVars>>

\* useWatch: the cleanup alone (unmount).
WatchCleanup(b) ==
    /\ b # "grid" /\ pend[b] = "cleanup" /\ ~JobQueued
    /\ att' = [att EXCEPT ![cur[b]] = CancelWatch(@)]
    /\ cell' = [cell EXCEPT ![b] = Teardown(@)]
    /\ pend' = [pend EXCEPT ![b] = "none"]
    /\ UNCHANGED <<mode, hook, amb, seen, depEnv, calls, mounted, props,
                   resolvable, deps, rUpdates, updates, cur, pushes,
                   rLoads, valueVars>>

----------------------------------------------------------------------------
(* The continuations of doGetGrid() and open() *)

\* A step of attempt a leaves cell c and attempt record at.
Resume(a, c, at) ==
    /\ att' = [att EXCEPT ![a] = at]
    /\ cell' = [cell EXCEPT ![att[a].owner] = c]
    /\ updates' = [updates EXCEPT ![att[a].owner] = StateAfter(@, att[a], at)]
    /\ UNCHANGED <<mode, hook, amb, seen, depEnv, calls, mounted, props,
                   resolvable, pend, deps, rUpdates, rLoads, cur>>

\* A continuation of doGetGrid() / open() runs when its I/O settles.
Step(a, c, at) == ~JobQueued /\ Resume(a, c, at) /\ UNCHANGED pushes

\* catch and finally of doGetGrid() / open() after a rejection.
Failed(a, c, at) ==
    [cell |-> Finish(CaptureError(c, at.cancel, a), at.cancel),
     at |-> ForceUpdate([at EXCEPT !.pc = Settled(at), !.failed = TRUE])]

\* doGetGrid() after await getGrid() resolved to a grid with `rows'.
GetGridResolved(a, c, at, rows) ==
    [cell |-> Finish(CommitGrid(c, at.cancel, ReadGrid(a, rows)), at.cancel),
     at |-> ForceUpdate([at EXCEPT !.pc = Settled(at)])]

\* useGrid: getGrid() settles.
GetGridSettle(a, ok, rows) ==
    /\ a \in Attempts
    /\ att[a].owner = "grid" /\ att[a].pc = "read"
    /\ LET s == IF ok THEN GetGridResolved(a, cell["grid"], att[a], rows)
                ELSE Failed(a, cell["grid"], att[a])
       IN  Step(a, s.cell, s.at)
    /\ UNCHANGED valueVars

\* open() after the filter read resolved to a grid with `rows': bail when
\* cancelled, else commit the interim data and ask for the watch.
ReadResolved(a, c, at, rows) ==
    IF at.cancel
    THEN [cell |-> Finish(c, at.cancel),
          at |-> ForceUpdate([at EXCEPT !.pc = Settled(at)])]
    ELSE [cell |-> InterimCommit(c, ReadGrid(a, rows)),
          at |-> RequestHandle(ForceUpdate(
                    [at EXCEPT !.ids = IdsOf(rows), !.interim = TRUE]))]

\* useWatch: the filter read settles.
ReadSettle(a, ok, rows) ==
    /\ a \in Attempts
    /\ att[a].owner # "grid" /\ att[a].pc = "read"
    /\ LET b == att[a].owner
           s == IF ok THEN ReadResolved(a, cell[b], att[a], rows)
                ELSE Failed(a, cell[b], att[a])
       IN  Step(a, s.cell, s.at)
    /\ UNCHANGED valueVars

\* watchData.grid = watch.grid
CommitWatchGrid(c, g) == [c EXCEPT !.grid = g]

\* watch.pollRate = ...; watch.changed({ callback: forceUpdate })
Subscribe(at) ==
    [at EXCEPT !.registered = TRUE,
               !.interval = WatchPollRate(ParamPollRate(at.pollRate))]

\* await watch.close() inside open()
CloseInOpenAfterSubscribe(at) ==
    [Subscribe(at) EXCEPT !.closes = @ + 1, !.pc = "closing"]
CloseInOpen(at) == [at EXCEPT !.closes = @ + 1, !.pc = "closing"]

\* open() after make() resolved to a watch: close it and bail when
\* cancelled, else configure it, commit its grid and return it.
MakeResolved(a, c, at) ==
    LET made == [at EXCEPT !.created = TRUE]
    IN  IF at.cancel
        THEN [cell |-> c, at |-> CloseInOpen(made)]
        ELSE [cell |-> Finish(CommitWatchGrid(c, WatchGrid(a, at.ids.rows)), at.cancel),
              at |-> ForceUpdate([Subscribe(made) EXCEPT !.ret = "watch",
                                                         !.pc = Settled(at)])]

\* useWatch: make() settles.
MakeStep(a, ok) ==
    /\ a \in Attempts
    /\ att[a].pc = "make"
    /\ LET b == att[a].owner
           s == IF ok THEN MakeResolved(a, cell[b], att[a])
                ELSE Failed(a, cell[b], att[a])
       IN  Step(a, s.cell, s.at)

MakeSettle(a, ok) == MakeStep(a, ok) /\ UNCHANGED valueVars

\* open() after its own await watch.close() resolved: return watch.
CloseResolved(c, at) ==
    [cell |-> Finish(c, at.cancel),
     at |-> ForceUpdate([at EXCEPT !.ret = "watch", !.pc = Settled(at)])]

\* useWatch: the watch.close() awaited by open() settles.
CloseSettle(a, ok) ==
    /\ a \in Attempts
    /\ att[a].pc = "closing"
    /\ LET b == att[a].owner
           s == IF ok THEN CloseResolved(cell[b], att[a])
                ELSE Failed(a, cell[b], att[a])
       IN  Step(a, s.cell, s.at)
    /\ UNCHANGED valueVars

\* close() of the cleanup: const watch = await promise; watch?.close()
ChainedClose(at) ==
    [at EXCEPT !.closer = "done",
               !.closes = IF at.ret = "watch" THEN @ + 1 ELSE @]

\* useWatch: the promise of open() has settled and the cleanup's close()
\* resumes.
CleanupClose(a) ==
    /\ a \in Attempts
    /\ att[a].closer = "waiting" /\ att[a].pc \in {"done", "bailed"}
    /\ att' = [att EXCEPT ![a] = ChainedClose(@)]
    /\ UNCHANGED <<mode, hook, amb, seen, depEnv, calls, mounted, props,
                   resolvable, pend, deps, rUpdates, cell, updates, cur,
                   pushes,
                   rLoads, valueVars>>

\* The open watch of attempt a reports a change: the registered callback,
\* forceUpdate, runs.
Push(a) ==
    /\ a \in Attempts
    /\ ~JobQueued
    /\ att[a].registered /\ att[a].closes = 0
    /\ pushes[att[a].owner] < MaxPushes
    /\ pushes' = [pushes EXCEPT ![att[a].owner] = @ + 1]
    /\ Resume(a, cell[att[a].owner], ForceUpdate(att[a]))
    /\ UNCHANGED valueVars

----------------------------------------------------------------------------
(* useWatch with state hooks: grid, isLoading, loads and error are React
   states (the cell record holds them), `loads' and `updates' are locals of
   the render whose effect runs. *)

\* pollRate || DEFAULT_POLL_RATE_SECS
StatePollRate(n) == IF n # 0 THEN n ELSE DEFAULT_POLL_RATE_SECS

\* setIsLoading(false); setLoads(++loads)
StateCountLoad(c, at) ==
    [cell |-> [c EXCEPT !.isLoading = FALSE, !.loads = at.lds + 1],
     at |-> [at EXCEPT !.lds = @ + 1]]

\* finally { if (!cancel) { setIsLoading(false); setLoads(++loads) } }
StateFinish(c, at) ==
    IF ~at.cancel THEN StateCountLoad(c, at) ELSE [cell |-> c, at |-> at]

\* setGrid(ids); setIsLoading(false); setLoads(++loads)
StateInterim(c, at, g) ==
    StateCountLoad([c EXCEPT !.grid = g], [at EXCEPT !.interim = TRUE])

\* The cleanup: setIsLoading(false); setError(undefined)
StateTeardown(c) == [c EXCEPT !.isLoading = FALSE, !.error = NoError]

\* The first, synchronous part of open(): setIsLoading(true), and without
\* ids and without a filter `ids = new HGrid()' and the interim commit.
StateOpenStart(a, c0, at0) ==
    LET c1 == [c0 EXCEPT !.isLoading = TRUE]
    IN  IF ~at0.ids.def
        THEN IF at0.filter # ""
             THEN [cell |-> c1, at |-> at0]
             ELSE LET i == StateInterim(c1, [at0 EXCEPT !.ids = IdsOf({})],
                                        NewGrid(a))
                  IN  [cell |-> i.cell, at |-> RequestHandle(i.at)]
        ELSE [cell |-> c1, at |-> RequestHandle(at0)]

\* The component function runs again: the effect's closures hold the
\* `loads' and `updates' this render read.
RenderState(p) ==
    /\ RenderCore(p, resolvable, MaxReruns)
    /\ rLoads' = [b \in AllBindings |->
                    IF pend'[b] = "run" THEN cell[b].loads ELSE 0]
    /\ UNCHANGED valueVars

\* The effect runs: the cleanup of the previous run, then open() up to its
\* first await.
StateEffect(b) ==
    /\ b = "watch" /\ pend[b] = "run" /\ ~JobQueued
    /\ LET old == cur[b]
           a == Len(att) + 1
           c0 == IF old = 0 THEN cell[b] ELSE StateTeardown(cell[b])
           at0 == [NewAttempt(b, props, rUpdates[b]) EXCEPT !.lds = rLoads[b]]
           s == StateOpenStart(a, c0, at0)
           prev == IF old = 0 THEN att ELSE [att EXCEPT ![old] = CancelWatch(@)]
       IN  /\ att' = Append(prev, s.at)
           /\ cell' = [cell EXCEPT ![b] = s.cell]
           /\ cur' = [cur EXCEPT ![b] = a]
    /\ deps' = [deps EXCEPT ![b] = props]
    /\ depEnv' = [depEnv EXCEPT ![b] = DepEnv(hook, seen)]
    /\ pend' = [pend EXCEPT ![b] = "none"]
    /\ rUpdates' = [rUpdates EXCEPT ![b] = 0]
    /\ rLoads' = [rLoads EXCEPT ![b] = 0]
    /\ UNCHANGED <<mode, hook, amb, seen, calls, mounted, props, resolvable,
                   updates, pushes, valueVars>>

\* The cleanup alone (unmount).
StateCleanup(b) ==
    /\ b = "watch" /\ pend[b] = "cleanup" /\ ~JobQueued
    /\ att' = [att EXCEPT ![cur[b]] = CancelWatch(@)]
    /\ cell' = [cell EXCEPT ![b] = StateTeardown(@)]
    /\ pend' = [pend EXCEPT ![b] = "none"]
    /\ UNCHANGED <<mode, hook, amb, seen, depEnv, calls, mounted, props,
                   resolvable, deps, rUpdates, rLoads, updates, cur, pushes,
                   valueVars>>

\* catch { if (!cancel) setError(err) } and finally, after a rejection.
StateFailed(a, c, at) ==
    LET f == StateFinish(IF ~at.cancel THEN [c EXCEPT !.error = a] ELSE c, at)
    IN  [cell |-> f.cell,
         at |-> [f.at EXCEPT !.pc = Settled(at), !.failed = TRUE]]

\* open() after the filter read resolved: return when cancelled, else the
\* interim commit and make().
StateReadResolved(a, c, at, rows) ==
    IF at.cancel
    THEN [cell |-> c, at |-> [at EXCEPT !.pc = Settled(at)]]
    ELSE LET i == StateInterim(c, [at EXCEPT !.ids = IdsOf(rows)],
                               ReadGrid(a, rows))
         IN  [cell |-> i.cell, at |-> RequestHandle(i.at)]

\* The filter read settles.
StateReadSettle(a, ok, rows) ==
    /\ a \in Attempts /\ att[a].pc = "read"
    /\ LET s == IF ok THEN StateReadResolved(a, cell["watch"], att[a], rows)
                ELSE StateFailed(a, cell["watch"], att[a])
       IN  Step(a, s.cell, s.at)
    /\ UNCHANGED valueVars

\* open() after make() resolved: close and return the watch when
\* cancelled, else set its poll rate and callback, setGrid(watch.grid),
\* setUpdates(++updates), return it, and finally.
StateMakeResolved(a, c, at) ==
    LET made == [at EXCEPT !.created = TRUE]
    IN  IF at.cancel
        THEN [cell |-> c, at |-> CloseInOpen(made)]
        ELSE LET sub == ForceUpdate(
                            [made EXCEPT !.registered = TRUE,
                                         !.interval = StatePollRate(
                                             ParamPollRate(at.pollRate)),
                                         !.ret = "watch"])
                 f == StateFinish(
                          [c EXCEPT !.grid = WatchGrid(a, at.ids.rows)], sub)
             IN  [cell |-> f.cell, at |-> [f.at EXCEPT !.pc = Settled(at)]]

\* make() settles.
StateMakeSettle(a, ok) ==
    /\ a \in Attempts /\ att[a].pc = "make"
    /\ LET s == IF ok THEN StateMakeResolved(a, cell["watch"], att[a])
                ELSE StateFailed(a, cell["watch"], att[a])
       IN  Step(a, s.cell, s.at)
    /\ UNCHANGED valueVars

\* open() after its own await watch.close() resolved: return watch.
StateCloseResolved(c, at) ==
    LET f == StateFinish(c, at)
    IN  [cell |-> f.cell,
         at |-> [f.at EXCEPT !.ret = "watch", !.pc = Settled(at)]]

\* The watch.close() awaited by open() settles.
StateCloseSettle(a, ok) ==
    /\ a \in Attempts /\ att[a].pc = "closing"
    /\ LET s == IF ok THEN StateCloseResolved(cell["watch"], att[a])
                ELSE StateFailed(a, cell["watch"], att[a])
       IN  Step(a, s.cell, s.at)
    /\ UNCHANGED valueVars

----------------------------------------------------------------------------
(* The point variant, the tag variant and the dispatcher *)

\* The record the dispatcher hands to variant b: the input, or undefined.
Given(b, r) == IF b = "point" THEN isResolvablePoint(r) ELSE isResolvableTag(r)

\* isTag ? resolvable.meta.readTag.value : undefined
TagName(r) == IF isResolvableTag(r) THEN r.readTag ELSE ""

\* The field the variant reads: curVal, or the tag it was given.
ReadField(b, r) == IF b = "point" THEN "curVal" ELSE TagName(r)

\* originalPoint?.curVal / originalRecord?.get(tag)
OwnValue(b, r) ==
    IF Given(b, r) /\ ReadField(b, r) # "" THEN "own" ELSE "undefined"

\* grid[0]?.curVal / grid[0]?.get(tag), with lv the values in the watch
GridValue(g, f, lv) ==
    IF g.rows = {} \/ f = "" THEN "undefined"
    ELSE lv[CHOOSE e \in g.rows : TRUE][f]

\* useReadHaystackPoint / useReadHaystackRecordTag: [value, record]
ReadVariant(b, r, c, lv) ==
    IF c.isLoading
    THEN [value |-> OwnValue(b, r),
          entity |-> IF Given(b, r) THEN "orig" ELSE "undefined"]
    ELSE [value |-> GridValue(c.grid, ReadField(b, r), lv),
          entity |-> IF c.grid.rows = {} THEN "undefined" ELSE "live"]

\* resolveDefaultPointWriteOpt(resolvable): an object with the three keys
resolveDefaultPointWriteOpt(r) ==
    Options({"level", "who", "duration"},
            r.writeLevel, r.writeWho, r.writeDuration, {})

\* useWriteHaystackPoint(id, generalOptions)
useWriteHaystackPoint(id, generalOptions) ==
    IF id # ""
    THEN [kind |-> "point", id |-> id, tag |-> "curVal",
          general |-> generalOptions]
    ELSE NoWriter

\* useWriteHaystackRecordTag(id, tag)
useWriteHaystackRecordTag(id, tag) ==
    IF id # "" /\ tag # ""
    THEN [kind |-> "tag", id |-> id, tag |-> tag, general |-> NoOptions]
    ELSE NoWriter

\* The writer of variant b: built on originalRecord?.id
VariantWriter(b, r) ==
    LET id == IF Given(b, r) THEN r.id ELSE ""
    IN  IF b = "point"
        THEN useWriteHaystackPoint(id,
                 IF isResolvablePoint(r) THEN resolveDefaultPointWriteOpt(r)
                 ELSE NoOptions)
        ELSE useWriteHaystackRecordTag(id, TagName(r))

\* { ...base, ...options } for one key: an own key of options replaces
\* the value, also when its value is undefined.
Spread(base, options, k) == IF k \in options.keys THEN options[k] ELSE base

\* generalOptions?.level ?? 17
GeneralLevel(generalOptions) ==
    IF generalOptions.level # {} THEN generalOptions.level ELSE {17}

\* The argument of client.ops.pointWrite(): { id, level, who, duration,
\* ...options, val }
pointWrite(id, generalOptions, val, options) ==
    [id |-> Spread({id}, options, "id"),
     level |-> Spread(GeneralLevel(generalOptions), options, "level"),
     who |-> Spread(generalOptions.who, options, "who"),
     duration |-> Spread(generalOptions.duration, options, "duration"),
     val |-> {val}]

\* What the writer w sends for write(val, options): the pointWrite
\* argument, or the record and value of the Axon expression of a tag.
WriteRequest(w, val, options) ==
    IF w.kind = "point" THEN pointWrite(w.id, w.general, val, options)
    ELSE [NoRequest EXCEPT !.id = {w.id}, !.val = {val}]

\* useHaystackPoint / useHaystackRecordTag: [currentValue, writeFunc, record]
VariantResult(b, r, c, lv, current) ==
    [from |-> b, value |-> current, writer |-> VariantWriter(b, r),
     entity |-> ReadVariant(b, r, c, lv).entity, loading |-> c.isLoading]

\* return isPoint ? [...] : isTag ? [...] : [resolvable, undefined, undefined]
TagWithoutReadTag(r, cells, lv, cvs) ==
    IF isResolvablePoint(r)
    THEN VariantResult("point", r, cells["point"], lv, cvs["point"])
    ELSE IF isResolvable(r, "tag")
         THEN VariantResult("tag", r, cells["tag"], lv, cvs["tag"])
         ELSE [from |-> "input", value |-> "input", writer |-> NoWriter,
               entity |-> "undefined", loading |-> FALSE]
useResolveHaystackValue(r, cells, lv, cvs) ==
    IF isResolvablePoint(r)
    THEN VariantResult("point", r, cells["point"], lv, cvs["point"])
    ELSE IF isResolvableTag(r)
         THEN VariantResult("tag", r, cells["tag"], lv, cvs["tag"])
         ELSE [from |-> "input", value |-> "input", writer |-> NoWriter,
               entity |-> "undefined", loading |-> FALSE]

\* The effect on [readValue] of each variant, as the evaluation leaves it:
\* scheduled when readValue differs from the one of its last run.
ValueEffects(r, cells, lv, old) ==
    [b \in Variants |->
        LET v == ReadVariant(b, r, cells[b], lv).value
        IN  [pend |-> IF v # old[b].dep THEN "run" ELSE "none",
             read |-> v, dep |-> old[b].dep]]

\* The component is evaluated with input r: a new input, or a rerender.
Evaluate(r) ==
    /\ mounted /\ ~JobQueued
    /\ \A b \in AllBindings : pend[b] = "none"
    /\ \A b \in Variants : eff[b].pend = "none"
    /\ IF r # resolvable THEN RenderCore(props, r, MaxReruns) /\ UNCHANGED rLoads
       ELSE UNCHANGED coreVars
    /\ out' = useResolveHaystackValue(r, cell, live, cv)
    /\ eff' = ValueEffects(r, cell, live, eff)
    /\ UNCHANGED <<cv, wr, srv, live>>

\* useEffect(() => { setCurrentValue(readValue) }, [readValue])
ValueEffect(b) ==
    /\ b \in Variants /\ eff[b].pend = "run" /\ ~JobQueued
    /\ cv' = [cv EXCEPT ![b] = eff[b].read]
    /\ eff' = [eff EXCEPT ![b] = [pend |-> "none", read |-> @.read, dep |-> @.read]]
    /\ UNCHANGED <<coreVars, out, wr, srv, live>>

\* The caller calls the writer the last evaluation returned: writeFunc
\* awaits write(val, options).
CallWriteWith(options) ==
    /\ mounted /\ ~JobQueued
    /\ out.writer.kind # "none"
    /\ wr.state # "pending" /\ wr.n < MaxWrites
    /\ wr' = [state |-> "pending", of |-> out.from, writer |-> out.writer,
              n |-> wr.n + 1, options |-> options,
              request |-> WriteRequest(out.writer, "written", options)]
    /\ UNCHANGED <<coreVars, cv, out, eff, srv, live>>

\* The caller passes no options.
CallWrite == CallWriteWith(NoOptions)

\* writeFunc after await write(val): setCurrentValue(val); return result
WriteAcceptedNoEcho(current, val) == current
WriteAccepted(current, val) == val

\* writeFunc when await write(val) throws: the rejection leaves writeFunc
WriteRejectedEcho(current, val) == val
WriteRejected(current, val) == current

\* The write request settles.  React drops a state update of a component
\* that is no longer mounted.
WriteSettle(ok) ==
    /\ wr.state = "pending" /\ ~JobQueued
    /\ IF ok
       THEN /\ srv' = [e \in RecIds |->
                        IF e \in wr.request.id
                        THEN [srv[e] EXCEPT ![wr.writer.tag] = "written"]
                        ELSE srv[e]]
            /\ cv' = IF mounted
                     THEN [cv EXCEPT ![wr.of] = WriteAccepted(@, "written")]
                     ELSE cv
            /\ wr' = [wr EXCEPT !.state = "fulfilled"]
       ELSE /\ srv' = srv
            /\ cv' = [cv EXCEPT ![wr.of] = WriteRejected(@, "written")]
            /\ wr' = [wr EXCEPT !.state = "rejected"]
    /\ UNCHANGED <<coreVars, out, eff, live>>

\* The grid of a watch on `rows' takes the server's values of its records.
Polled(rows, lv, sv) == [e \in RecIds |-> IF e \in rows THEN sv[e] ELSE lv[e]]

\* make() settles; an opened watch holds the server's records.
WatchOpens(a, ok) ==
    /\ MakeStep(a, ok)
    /\ live' = IF ok /\ ~att[a].cancel THEN Polled(att[a].ids.rows, live, srv)
               ELSE live
    /\ UNCHANGED <<cv, out, eff, wr, srv>>

\* The watch of attempt a polls the server: its grid takes the server's
\* values and the change callback, forceUpdate, runs.
Poll(a) ==
    /\ a \in Attempts
    /\ ~JobQueued
    /\ att[a].registered /\ att[a].closes = 0 /\ att[a].ids.rows # {}
    /\ live' = Polled(att[a].ids.rows, live, srv)
    /\ live' # live
    /\ Resume(a, cell[att[a].owner], ForceUpdate(att[a]))
    /\ UNCHANGED <<pushes, cv, out, eff, wr, srv>>

----------------------------------------------------------------------------

\* A component built on useGrid or on useWatch.
Init == InitOf({"useGrid", "useWatch"})

\* What happens besides renders.
Events ==
    \/ Unmount
    \/ \E b \in AllBindings : GridEffect(b)
    \/ \E b \in AllBindings : GridCleanup(b)
    \/ \E b \in AllBindings : WatchEffect(b)
    \/ \E b \in AllBindings : WatchCleanup(b)
    \/ \E a \in AttemptIds, rows \in RowSets : GetGridSettle(a, TRUE, rows)
    \/ \E a \in AttemptIds : GetGridSettle(a, FALSE, {})
    \/ \E a \in AttemptIds, rows \in RowSets : ReadSettle(a, TRUE, rows)
    \/ \E a \in AttemptIds : ReadSettle(a, FALSE, {})
    \/ \E a \in AttemptIds, ok \in BOOLEAN : MakeSettle(a, ok)
    \/ \E a \in AttemptIds, ok \in BOOLEAN : CloseSettle(a, ok)
    \/ \E a \in AttemptIds : CleanupClose(a)
    \/ \E a \in AttemptIds : Push(a)

Next ==
    \/ \E p \in Props : Render(p, resolvable)
    \/ Events

Spec == Init /\ [][Next]_vars

\* The cleanup's close() is a continuation on the promise of open(): once
\* the promise has settled, the job queue runs it.
FairSpec == Spec /\ \A a \in AttemptIds : WF_vars(CleanupClose(a))

\* The same component, followed through one more effect re-run.
NextLong ==
    \/ \E p \in Props : RenderAgain(p, resolvable)
    \/ Events

SpecLong == Init /\ [][NextLong]_vars

\* A component built on useWatch whose parameters change again and again,
\* with a server that answers every request: followed through two more
\* effect re-runs, while it stays mounted.
InitWatch == InitOf({"useWatch"})

NextChurn ==
    \/ \E p \in Props : RenderOften(p, resolvable)
    \/ \E b \in AllBindings : WatchEffect(b)
    \/ \E a \in AttemptIds : ReadSettle(a, TRUE, RecIds)
    \/ \E a \in AttemptIds : MakeSettle(a, TRUE)
    \/ \E a \in AttemptIds : CloseSettle(a, TRUE)
    \/ \E a \in AttemptIds : CleanupClose(a)
    \/ \E a \in AttemptIds : Push(a)

SpecChurn == InitWatch /\ [][NextChurn]_vars

\* A component built on useWatch whose caller passes a poll rate: absent,
\* negative, zero or positive, and changing between renders.
InitPoll ==
    InitProps({"useWatch"}, {"useWatch"}, Resolvables, PollProps) /\ ValuesUnused

NextPoll ==
    \/ \E p \in PollProps : Render(p, resolvable)
    \/ Unmount
    \/ \E b \in AllBindings : WatchEffect(b)
    \/ \E b \in AllBindings : WatchCleanup(b)
    \/ \E a \in AttemptIds, rows \in RowSets : ReadSettle(a, TRUE, rows)
    \/ \E a \in AttemptIds : ReadSettle(a, FALSE, {})
    \/ \E a \in AttemptIds, ok \in BOOLEAN : MakeSettle(a, ok)
    \/ \E a \in AttemptIds, ok \in BOOLEAN : CloseSettle(a, ok)
    \/ \E a \in AttemptIds : CleanupClose(a)
    \/ \E a \in AttemptIds : Push(a)

SpecPoll == InitPoll /\ [][NextPoll]_vars

\* A component built on the useWatch that keeps grid, isLoading, loads and
\* error in state hooks.
InitState == InitOf({"useWatch"})

NextState ==
    \/ \E p \in Props : RenderState(p)
    \/ Unmount
    \/ \E b \in AllBindings : StateEffect(b)
    \/ \E b \in AllBindings : StateCleanup(b)
    \/ \E a \in AttemptIds, rows \in RowSets : StateReadSettle(a, TRUE, rows)
    \/ \E a \in AttemptIds : StateReadSettle(a, FALSE, {})
    \/ \E a \in AttemptIds, ok \in BOOLEAN : StateMakeSettle(a, ok)
    \/ \E a \in AttemptIds, ok \in BOOLEAN : StateCloseSettle(a, ok)
    \/ \E a \in AttemptIds : CleanupClose(a)
    \/ \E a \in AttemptIds : Push(a)

SpecState == InitState /\ [][NextState]_vars

\* A component built on a one-shot hook or on useWatch whose parameters
\* stay as they are, while the contexts change and refresh() is called.
InitDeps ==
    InitWith(Hooks \ {"useGrid"}, {"useGrid", "useWatch"})

NextDeps ==
    \/ Render(props, resolvable)
    \/ RenderThrows
    \/ Refresh
    \/ \E c \in Clients : SetClient(c)
    \/ SetOps
    \/ Events

SpecDeps == InitDeps /\ [][NextDeps]_vars

\* A component built on useResolveHaystackValue: the point variant and the
\* tag variant each call useWatch with the id of the record they are given.
InitResolve == InitOf({"useResolveHaystackValue"})

NextResolve ==
    \/ \E r \in Resolvables : Render(props, r)
    \/ Unmount
    \/ \E b \in AllBindings : WatchEffect(b)
    \/ \E b \in AllBindings : WatchCleanup(b)
    \/ \E a \in AttemptIds, ok \in BOOLEAN : MakeSettle(a, ok)
    \/ \E a \in AttemptIds, ok \in BOOLEAN : CloseSettle(a, ok)
    \/ \E a \in AttemptIds : CleanupClose(a)
    \/ \E a \in AttemptIds : Push(a)

SpecResolve == InitResolve /\ [][NextResolve]_vars

\* The same component, with the values it returns: the first evaluation
\* has run, with currentValue undefined, and the effects are scheduled.
InitValues(inputs) ==
    /\ InitCore({"useWatch"}, {"useResolveHaystackValue"}, inputs)
    /\ cv = [b \in Variants |-> "undefined"]
    /\ srv = InitServer
    /\ live = InitServer
    /\ wr = NoWrite
    /\ out = useResolveHaystackValue(resolvable, cell, live, cv)
    /\ eff = [b \in Variants |->
                [pend |-> "run",
                 read |-> ReadVariant(b, resolvable, cell[b], live).value,
                 dep |-> "unset"]]

InitValue == InitValues(ValueInputs)

NextValue ==
    \/ \E r \in ValueInputs : Evaluate(r)
    \/ \E b \in Variants : ValueEffect(b)
    \/ CallWrite
    \/ \E ok \in BOOLEAN : WriteSettle(ok)
    \/ Unmount
    \/ \E b \in AllBindings : WatchEffect(b)
    \/ \E b \in AllBindings : WatchCleanup(b)
    \/ \E a \in AttemptIds, ok \in BOOLEAN : WatchOpens(a, ok)
    \/ \E a \in AttemptIds, ok \in BOOLEAN : CloseSettle(a, ok)
    \/ \E a \in AttemptIds : CleanupClose(a)
    \/ \E a \in AttemptIds : Poll(a)

SpecValue == InitValue /\ [][NextValue]_vars

\* The same component, handed a point or a tag of one record and then of
\* another one.
EntityInputs ==
    {Dict(TRUE, "point", "", e) : e \in RecIds}
        \cup {DictWith(TRUE, "tag", "precision", "precisionSp", e) : e \in RecIds}

InitEntity == InitValues(EntityInputs)

NextEntity ==
    \/ \E r \in EntityInputs : Evaluate(r)
    \/ \E b \in Variants : ValueEffect(b)
    \/ CallWrite
    \/ \E ok \in BOOLEAN : WriteSettle(ok)
    \/ Unmount
    \/ \E b \in AllBindings : WatchEffect(b)
    \/ \E b \in AllBindings : WatchCleanup(b)
    \/ \E a \in AttemptIds, ok \in BOOLEAN : WatchOpens(a, ok)
    \/ \E a \in AttemptIds, ok \in BOOLEAN : CloseSettle(a, ok)
    \/ \E a \in AttemptIds : CleanupClose(a)
    \/ \E a \in AttemptIds : Poll(a)

SpecEntity == InitEntity /\ [][NextEntity]_vars

\* The same component, handed points with and without write options in
\* their meta, and a caller that passes options to the writer.
WriteInputs ==
    {PointWith("p1", {}, {}, {}), PointWith("p1", {10}, {}, {}),
     PointWith("p1", {10}, {"ui"}, {30})}

InitWrite == InitValues(WriteInputs)

NextWrite ==
    \/ \E r \in WriteInputs : Evaluate(r)
    \/ \E b \in Variants : ValueEffect(b)
    \/ \E o \in CallOptions : CallWriteWith(o)
    \/ \E ok \in BOOLEAN : WriteSettle(ok)
    \/ \E b \in AllBindings : WatchEffect(b)
    \/ \E a \in AttemptIds, ok \in BOOLEAN : WatchOpens(a, ok)
    \/ \E a \in AttemptIds : Poll(a)

SpecWrite == InitWrite /\ [][NextWrite]_vars

----------------------------------------------------------------------------
(* Properties *)

Live(a) == a \in Attempts /\ ~att[a].cancel

\* The attempt has started and its promise has not settled.
Unsettled(a) == a \in Attempts /\ att[a].pc \in {"read", "make", "closing"}

\* The Attempts of b that settled while live.
Completed(b) == {a \in Attempts : att[a].owner = b /\ att[a].pc = "done"}

\* C1: every write of the cell's data stores a result of the Attempt that
\* is the most recently started one of the binding, and that Attempt is
\* not cancelled; a superseded Attempt never writes its result.
C1_OnlyLatestAttemptWritesData ==
    [][\A b \in AllBindings :
          cell'[b].grid # cell[b].grid =>
              /\ cur'[b] # 0
              /\ cell'[b].grid.by = cur'[b]
              /\ ~att'[cur'[b]].cancel]_vars

\* C1 witness: the I/O of a superseded Attempt settled last (its
\* forceUpdate is the last write of `updates'), after the newer Attempt
\* committed its result.
C1_Witness ==
    \E a1, a2 \in Attempts :
        /\ a1 < a2 /\ att[a1].owner = att[a2].owner
        /\ att[a1].pc = "bailed" /\ att[a2].pc = "done"
        /\ cell[att[a2].owner].grid.by = a2
        /\ updates[att[a1].owner] = att[a1].upd
        /\ att[a1].upd # att[a2].upd

\* C2 (as claimed): close() is never invoked twice on the handle of one
\* Attempt.
C2_CloseAtMostOnce == \A a \in Attempts : att[a].closes <= 1

\* C3: loads equals the number of Attempts of the binding that settled
\* without being superseded, and loads never decreases.
C3_LoadsCountsCompletedAttempts ==
    /\ [](\A b \in AllBindings : cell[b].loads = Cardinality(Completed(b)))
    /\ [][\A b \in AllBindings : cell'[b].loads >= cell[b].loads]_vars

\* C3 witness: two Attempts settled live, the last one by a failure, and
\* loads is 2.
C3_Witness ==
    \E b \in AllBindings :
        /\ Cardinality(Completed(b)) = 2
        /\ cell[b].error # NoError

\* C4: a step of an Attempt whose cancel is already set leaves every field
\* of the Result Cell unchanged.
C4_CancelledAttemptLeavesCell ==
    [][\A a \in Attempts :
          (att[a].cancel /\ att'[a] # att[a]) =>
              cell'[att[a].owner] = cell[att[a].owner]]_vars

\* C4 witness: the I/O of a cancelled Attempt has settled while a newer
\* Attempt of the binding owns the cell.
C4_Witness ==
    \E a1, a2 \in Attempts :
        /\ a1 < a2 /\ att[a1].owner = att[a2].owner
        /\ att[a1].pc = "bailed"
        /\ Live(a2) /\ Unsettled(a2)

\* The watch of a was created, a is torn down and close() was not called.
Leaked(a) == att[a].created /\ att[a].cancel /\ att[a].closes = 0

\* C5: a handle whose creation resolved and whose Attempt is torn down is
\* eventually closed, and close() is never called on the handle of an
\* Attempt that is still live.
C5_HandleEventuallyClosed ==
    /\ (\E a \in Attempts : Leaked(a)) ~> (\A a \in Attempts : ~Leaked(a))
    /\ [](\A a \in Attempts : att[a].closes >= 1 => att[a].cancel)

\* C5 witness: a watch that was opened and subscribed while its Attempt was
\* live has been closed by the chained close() of the cleanup.
C5_Witness ==
    \E a \in Attempts :
        att[a].registered /\ att[a].cancel /\ att[a].closer = "done"
            /\ att[a].closes = 1

\* The Attempt of useGrid that is in progress, if any; the first Attempt
\* counts from the construction of the cell.
GridInProgress ==
    \/ cur["grid"] = 0
    \/ Live(cur["grid"]) /\ Unsettled(cur["grid"])

\* C6: in useGrid isLoading is true exactly while an Attempt is in
\* progress: from its start to its completion or supersession.
C6_GridLoadingIffInProgress ==
    mode = "useGrid" => (cell["grid"].isLoading <=> GridInProgress)

\* C6 witness: a second Attempt is in progress after the superseded first
\* one has settled.
C6_Witness ==
    /\ mode = "useGrid" /\ cur["grid"] = 2
    /\ att[1].pc = "bailed"
    /\ Live(2) /\ Unsettled(2)

\* The live, unsettled Attempt of a useWatch binding.
WatchInProgress(b) == b # "grid" /\ cur[b] # 0 /\ Live(cur[b]) /\ Unsettled(cur[b])

\* C7 (as claimed): in useWatch isLoading is true from the start of an
\* Attempt until it completes or is superseded.
C7_WatchLoadingUntilComplete ==
    \A b \in AllBindings : WatchInProgress(b) => cell[b].isLoading

\* C7 (amended): isLoading is true from the start of an Attempt until its
\* interim commit, its completion or its supersession, and false between
\* the interim commit and the completion.
C7_WatchLoadingUntilInterim ==
    \A b \in AllBindings :
        WatchInProgress(b) => (cell[b].isLoading <=> ~att[cur[b]].interim)

\* C7 witness: on the ids path a second Attempt waits for make() with
\* isLoading true.
C7_Witness ==
    \E b \in AllBindings :
        /\ WatchInProgress(b) /\ cur[b] = 2
        /\ att[2].pc = "make" /\ ~att[2].interim
        /\ cell[b].isLoading

\* C8 (as claimed): when the filter read of a live Attempt resolves, the
\* cell holds the resolved table with isLoading false while make() is
\* pending, and the step that commits them changes `updates' (a rerender
\* is triggered).
C8_InterimVisibleBeforeSubscription ==
    /\ [](\A a \in Attempts :
            (Live(a) /\ att[a].pc = "make" /\ att[a].filter # "" /\ att[a].interim
                /\ cur[att[a].owner] = a) =>
                /\ cell[att[a].owner].grid = ReadGrid(a, att[a].ids.rows)
                /\ ~cell[att[a].owner].isLoading)
    /\ [][\A a \in Attempts :
            (att[a].pc = "read" /\ att'[a].pc = "make") =>
                updates'[att[a].owner] # updates[att[a].owner]]_vars

\* C9 (as claimed): make() is never called for an Attempt whose id set is
\* empty.
C9_NoHandleForEmptyIds ==
    \A a \in Attempts : att[a].made => att[a].ids.rows # {}

\* C10 (as claimed): while the input of useResolveHaystackValue has no
\* resolution metadata, neither variant has requested a watch.
C10_NoSubscriptionWithoutMeta ==
    (mode = "useResolveHaystackValue" /\ ~isResolvableDict(resolvable)
        /\ \A b \in AllBindings : pend[b] = "none") =>
        \A b \in {"point", "tag"} : cur[b] # 0 => ~att[cur[b]].made

\* C16: when the awaited I/O of a live Attempt rejects (getGrid(), the
\* filter read, make()), the promise of the Attempt still fulfils, the
\* failure is stored in error, the data is left as it was, isLoading
\* becomes false and loads grows by one.
C16_FailureCapturedInCell ==
    [][\A a \in Attempts :
          (Live(a) /\ ~att[a].failed /\ att'[a].failed) =>
              LET b == att[a].owner
              IN  /\ att'[a].pc = "done"
                  /\ cell'[b].error = a
                  /\ cell'[b].grid = cell[b].grid
                  /\ ~cell'[b].isLoading
                  /\ cell'[b].loads = cell[b].loads + 1]_vars

\* C16 witness: make() of a live Attempt rejected after the interim commit
\* of a filter read; the cell keeps the table that was read.
C16_Witness ==
    \E a \in Attempts :
        /\ Live(a) /\ att[a].failed /\ att[a].made /\ att[a].filter # ""
        /\ cell[att[a].owner].grid = ReadGrid(a, RecIds)
        /\ cell[att[a].owner].error = a

\* C19: error belongs to the latest Attempt only: it is undefined while
\* the latest Attempt is in progress, and once that Attempt has completed
\* it is set exactly when the Attempt failed.
C19_ErrorOfLatestAttemptOnly ==
    \A b \in AllBindings :
        (cur[b] # 0 /\ Live(cur[b])) =>
            IF Unsettled(cur[b])
            THEN cell[b].error = NoError
            ELSE (cell[b].error # NoError) <=> att[cur[b]].failed

\* C19 witness: the first Attempt failed while live, and the Attempt that
\* superseded it has completed without a failure.
C19_Witness ==
    \E b \in AllBindings :
        /\ cur[b] = 2 /\ att[1].owner = b
        /\ att[1].failed /\ att[1].pc = "done"
        /\ att[2].pc = "done" /\ ~att[2].failed
        /\ cell[b].error = NoError

\* C20 (as claimed): every change notification of the watch of the live
\* Attempt changes `updates', whatever the other Attempts of the binding
\* have done to it.
C20_PushAlwaysRerenders ==
    [][\A a \in Attempts :
          (Live(a) /\ cur[att[a].owner] = a /\ att[a].registered
              /\ pushes'[att[a].owner] # pushes[att[a].owner]
              /\ att'[a] # att[a]) =>
              updates'[att[a].owner] # updates[att[a].owner]]_vars

\* C17 (as claimed): every call of refresh() increments the refresh
\* counter, and the render that reads a changed counter schedules the
\* effect of the binding again (a new Attempt supersedes the current one).
C17_EveryRefreshStartsAttempt ==
    /\ [][calls' # calls => amb'.refreshes = amb.refreshes + 1]_vars
    /\ [][(seen' # seen /\ amb.refreshes # seen.refreshes) =>
             \A b \in Bindings(mode) : pend'[b] = "run"]_vars

\* C18 (as claimed): a render that reads another Client instance or
\* another ops flag than the render before schedules the effect of every
\* binding again.
C18_AmbientChangeStartsAttempt ==
    [][(seen' # seen /\ (amb.client # seen.client \/ amb.ops # seen.ops)) =>
          \A b \in Bindings(mode) : pend'[b] = "run"]_vars

\* C11: the dispatcher returns the point variant's result exactly for a
\* dict whose meta has resolveType "point", the tag variant's exactly for
\* resolveType "tag" with a readTag, and otherwise the input itself with
\* no writer and no entity; the two cases exclude each other.
C11_DispatchByMetadata ==
    LET r == resolvable
        point == r.kind = "dict" /\ r.hasMeta /\ r.resolveType = "point"
        tag == r.kind = "dict" /\ r.hasMeta /\ r.resolveType = "tag"
                   /\ r.readTag # ""
    IN  out.from # "none" =>
            /\ ~(point /\ tag)
            /\ point => (out.from = "point" /\ out.writer.kind \in {"point", "none"})
            /\ tag => (out.from = "tag" /\ out.writer.kind \in {"tag", "none"})
            /\ (~point /\ ~tag) =>
                   /\ out.from = "input" /\ out.value = "input"
                   /\ out.writer = NoWriter /\ out.entity = "undefined"

\* C11 witness: an evaluation after the first one got a tag dict without
\* readTag and returned the input itself.
C11_Witness ==
    /\ resolvable.resolveType = "tag" /\ resolvable.readTag = ""
    /\ out.from = "input" /\ Len(att) > 2

\* C12 (as claimed): the writer returned for a tag dict writes the field
\* named by writeTag when writeTag is set, and the readTag field otherwise.
C12_WriterTargetsWriteTag ==
    (out.from = "tag" /\ out.writer.kind = "tag") =>
        out.writer.tag = (IF resolvable.writeTag # "" THEN resolvable.writeTag
                          ELSE resolvable.readTag)

\* C13: when the write request is accepted, currentValue of the variant
\* becomes the written value in that step, whatever the watch has polled;
\* calling the writer does not change it.
C13_AcceptedWriteShowsAtOnce ==
    /\ [][(mounted /\ wr.state = "pending" /\ wr'.state = "fulfilled") =>
             cv'[wr.of] = "written"]_vars
    /\ [][(wr.state # "pending" /\ wr'.state = "pending") => cv' = cv]_vars

\* C13 witness: the write was accepted and the variant shows the written
\* value while the watch still holds the value polled before.
C13_Witness ==
    /\ wr.state = "fulfilled" /\ cv[wr.of] = "written"
    /\ \E a \in Attempts : att[a].registered /\ att[a].owner = wr.of
    /\ live[wr.writer.id][wr.writer.tag] = "server"

\* C14: when the write request is rejected, the writer's promise rejects,
\* currentValue is left as it was and no Result Cell changes.
C14_RejectedWriteLeavesState ==
    [][(wr.state = "pending" /\ wr'.state # "pending") =>
          \/ wr'.state = "fulfilled" /\ srv'[wr.writer.id][wr.writer.tag] = "written"
          \/ wr'.state = "rejected" /\ cv' = cv /\ cell' = cell /\ srv' = srv]_vars

\* C14 witness: a write on a subscribed point was rejected; the variant
\* shows the polled value and the cell has no error.
C14_Witness ==
    /\ wr.state = "rejected" /\ cv[wr.of] = "server"
    /\ cell[wr.of].error = NoError

\* C15 (as claimed): an evaluation that finds the variant's watch loading
\* returns the input record's own value and the input record.
C15_FallbackWhileLoading ==
    (out.from \in Variants /\ out.loading) =>
        /\ out.value = OwnValue(out.from, resolvable)
        /\ out.entity = "orig"

\* C22 (as claimed): the `updates' state of a useWatch binding changes
\* only by a change notification of the watch, and then by exactly one.
C22_UpdatesCountsPushes ==
    [][\A b \in AllBindings \ {"grid"} :
          (mounted /\ updates'[b] # updates[b]) =>
              /\ pushes'[b] = pushes[b] + 1
              /\ updates'[b] = updates[b] + 1]_vars

\* C23: at most one Attempt of a binding has its cancel unset, and a
\* cancel that is set stays set.
C23_OneLiveAttempt ==
    /\ [](\A b \in AllBindings :
            Cardinality({a \in Attempts : att[a].owner = b /\ ~att[a].cancel}) <= 1)
    /\ [][\A a \in Attempts : att[a].cancel => att'[a].cancel]_vars

\* C23 witness: the second Attempt of a binding is live while the I/O of
\* the first, cancelled one is still pending.
C23_Witness ==
    \E a1, a2 \in Attempts :
        /\ a1 < a2 /\ att[a1].owner = att[a2].owner
        /\ att[a1].cancel /\ Unsettled(a1)
        /\ Live(a2)

\* C24: once the first Attempt of a binding has settled without being
\* superseded, isLoading is false and loads is one; if it did not fail,
\* the data is its result and error is undefined.
C24_FirstAttemptCompletes ==
    \A b \in AllBindings :
        (cur[b] # 0 /\ Live(cur[b]) /\ att[cur[b]].pc = "done"
            /\ Cardinality({a \in Attempts : att[a].owner = b}) = 1) =>
            /\ ~cell[b].isLoading
            /\ cell[b].loads = 1
            /\ ~att[cur[b]].failed =>
                   /\ cell[b].grid.by = cur[b]
                   /\ cell[b].grid.kind = (IF b = "grid" THEN "read" ELSE "watch")
                   /\ cell[b].error = NoError

\* C24 witness: the first Attempt of a useWatch binding with a filter has
\* completed: the cell holds the grid of its watch.
C24_Witness ==
    /\ cur["watch"] = 1 /\ Live(1) /\ att[1].pc = "done" /\ ~att[1].failed
    /\ att[1].filter # "" /\ cell["watch"].grid = WatchGrid(1, RecIds)
    /\ cell["watch"].loads = 1

\* C25: the cleanup of an effect sets the Attempt's cancel, sets isLoading
\* to false and clears error; it leaves the data, loads and `updates' as
\* they are.  (When a new Attempt starts in the same step, the data and
\* `updates' are those the new Attempt leaves.)
C25_TeardownFrame ==
    /\ [][\A b \in AllBindings :
             (pend[b] = "cleanup" /\ pend'[b] = "none") =>
                 /\ att'[cur[b]].cancel
                 /\ ~cell'[b].isLoading /\ cell'[b].error = NoError
                 /\ cell'[b].grid = cell[b].grid
                 /\ cell'[b].loads = cell[b].loads
                 /\ updates'[b] = updates[b]]_vars
    /\ [][\A b \in AllBindings :
             (cur[b] # 0 /\ cur'[b] # cur[b]) =>
                 /\ att'[cur[b]].cancel
                 /\ cell'[b].loads = cell[b].loads
                 /\ cell'[b].error = NoError]_vars

\* C25 witness: a component was removed after its Attempt failed: the
\* cleanup cleared the error and kept loads.
C25_Witness ==
    \E b \in AllBindings :
        /\ ~mounted /\ pend[b] = "none" /\ cur[b] # 0
        /\ att[cur[b]].failed /\ att[cur[b]].cancel
        /\ cell[b].loads = 1 /\ cell[b].error = NoError

C28_UpdatesMonotonic ==
    [][\A b \in AllBindings : mounted => updates'[b] >= updates[b]]_vars

\* C29 (as claimed): a step of an Attempt whose cancel is set changes
\* neither the cell nor `updates' of its mounted binding.
C29_CancelledAttemptIsInert ==
    [][\A a \in Attempts :
          (mounted /\ att[a].cancel /\ att'[a] # att[a]) =>
              /\ cell'[att[a].owner] = cell[att[a].owner]
              /\ updates'[att[a].owner] = updates[att[a].owner]]_vars

\* C21: when useWatch subscribes for a live Attempt, the handle's poll
\* interval is the caller's pollRate if that is positive, and the default
\* poll rate if it is zero, negative or absent.
C21_PollInterval ==
    \A a \in Attempts :
        (att[a].owner # "grid" /\ att[a].registered) =>
            att[a].interval =
                IF att[a].pollRate.def /\ att[a].pollRate.n > 0
                THEN att[a].pollRate.n
                ELSE DEFAULT_POLL_RATE_SECS

C21_Witness ==
    /\ \E a \in Attempts :
            att[a].registered /\ att[a].pollRate = PollRateOf(3) /\ att[a].interval = 3
    /\ \E a \in Attempts :
            /\ att[a].registered /\ att[a].interval = DEFAULT_POLL_RATE_SECS
            /\ att[a].pollRate \in {NoPollRate, PollRateOf(0), PollRateOf(-1)}

\* C27: a useWatch Attempt superseded while make() is awaited only closes
\* the handle once make() settles: it sets no poll interval, registers no
\* callback, and leaves the cell (grid, isLoading, error, loads) as it is,
\* in that step and in the step where its own close() settles.
C27_SupersededMakeOnlyCloses ==
    [][\A a \in Attempts :
        LET b == att[a].owner
        IN  /\ (att[a].pc = "make" /\ att[a].cancel /\ att'[a].pc # "make") =>
                /\ cell'[b] = cell[b]
                /\ ~att'[a].registered /\ att'[a].interval = 0
                /\ att'[a].created =>
                        /\ att'[a].pc = "closing"
                        /\ att'[a].closes = att[a].closes + 1
            /\ (att[a].pc = "closing" /\ att'[a].pc # "closing") =>
                /\ cell'[b] = cell[b]
                /\ ~att'[a].registered /\ att'[a].interval = 0]_vars

C27_Witness ==
    \E a \in Attempts :
        /\ att[a].cancel /\ att[a].created /\ att[a].pc = "bailed"
        /\ ~att[a].registered /\ att[a].closes >= 1
        /\ cur[att[a].owner] # a
        /\ cell[att[a].owner].isLoading

\* The record variant b tracks: originaryPoint?.id of the last evaluation.
TrackedId(b) == IF Given(b, resolvable) THEN resolvable.id ELSE ""

\* C30 (as claimed): when a write is accepted after the variant it was
\* issued on has been handed a record with another id, or after the
\* component was removed, currentValue of the variant is left as it is.
C30_EchoOnlyForWrittenEntity ==
    [][(/\ wr.state = "pending" /\ wr'.state = "fulfilled"
        /\ \/ ~mounted
           \/ TrackedId(wr.of) \notin {"", wr.writer.id})
          => cv'[wr.of] = cv[wr.of]]_vars

\* A call supplies an option when the object has the key with a value.
Supplied(options, k) == k \in options.keys /\ options[k] # {}

\* C31 (as claimed): the pointWrite request of a point writer takes each
\* of level, who and duration from the call's options when the call
\* supplies it, else from the general options, else the default (level
\* 17, no who, no duration); its id is the point's id and its val the
\* written value.
C31_WriteOptionsPrecedence ==
    (wr.state # "idle" /\ wr.writer.kind = "point") =>
        LET o == wr.options
            g == wr.writer.general
        IN  /\ wr.request.level =
                    (IF Supplied(o, "level") THEN o.level
                     ELSE IF g.level # {} THEN g.level ELSE {17})
            /\ wr.request.who =
                    (IF Supplied(o, "who") THEN o.who ELSE g.who)
            /\ wr.request.duration =
                    (IF Supplied(o, "duration") THEN o.duration ELSE g.duration)
            /\ wr.request.id = {wr.writer.id}
            /\ wr.request.val = {"written"}

\* C32 (as claimed): in the useWatch with state hooks, loads is the number
\* of Attempts that completed without being superseded, whether or not
\* they went through the filter read.
C32_StateLoadsCountCompleted ==
    cell["watch"].loads = Cardinality(Completed("watch"))
====
